---------------------------- MODULE Spec2Model ----------------------------
(***************************************************************************)
(* ModelarDB-RS, crates/modelardb_server/src/query/grid_exec.rs.           *)
(*                                                                         *)
(* GridStream reads batches of compressed segments from its input stream,  *)
(* reconstructs the data points of every segment, filters them with the    *)
(* optional predicate and returns them in batches of at most batch_size    *)
(* data points.  The data points that did not fit in the returned batch    *)
(* stay in current_batch after current_batch_offset (the leftovers).       *)
(*                                                                         *)
(* A data point is a tuple <<univariate_id, timestamp, value>>, a          *)
(* RecordBatch of data points is a sequence of them, a compressed segment  *)
(* is a record and a RecordBatch of segments is a sequence of segments.    *)
(***************************************************************************)
EXTENDS Integers, Sequences, FiniteSets, TLC

(***************************************************************************)
(* Bounds of the model.                                                    *)
(***************************************************************************)
\* Timestamps are 0..MaxTime.
MaxTime == 2
\* The input stream yields at most MaxSegments segments in total.
MaxSegments == 2
\* The session's batch size is 1..MaxBatchSize, and the limit of the query
\* is absent or 0..MaxBatchSize.
MaxBatchSize == 2

UnivariateIds == {1, 2}
Timestamps == 0..MaxTime

\* Option<T>: None is the empty sequence and Some(x) the sequence of x.
None == <<>>
Some(x) == <<x>>

Limits == {None} \cup {Some(n) : n \in 0..MaxBatchSize}
BatchSizes == 1..MaxBatchSize

\* The predicates of the model: none, value >= 1, and timestamp is even.
Predicates == {None, Some("value"), Some("timestamp")}

(***************************************************************************)
(* Compressed segments and the batches the input stream yields.            *)
(***************************************************************************)
Segments ==
    {s \in [univariate_id : UnivariateIds, start_time : Timestamps,
            end_time : Timestamps] : s.start_time <= s.end_time}

\* QUERY_ORDER_SEGMENT, required of the input: segments are sorted by
\* (univariate_id, start_time) and the segments of a time series are disjoint.
SegmentFollows(key, s) ==
    \/ s.univariate_id > key[1]
    \/ s.univariate_id = key[1] /\ s.start_time > key[2]

RECURSIVE SortedSegments(_, _)
SortedSegments(key, n) ==
    IF n = 0 THEN {<<>>}
    ELSE {<<>>} \cup
         UNION {{<<s>> \o rest :
                    rest \in SortedSegments(<<s.univariate_id, s.end_time>>, n - 1)} :
                s \in {t \in Segments : SegmentFollows(key, t)}}

\* Every way to cut a sequence of segments into consecutive batches of at
\* least one segment.
RECURSIVE SplitIntoBatches(_)
SplitIntoBatches(segments) ==
    IF segments = <<>> THEN {<<>>}
    ELSE UNION {{<<SubSeq(segments, 1, k)>> \o rest :
                    rest \in SplitIntoBatches(SubSeq(segments, k + 1, Len(segments)))} :
                k \in 1..Len(segments)}

\* The batches of segments an input stream may yield, in order.  It may
\* also yield batches of no segment, see PollInputEmpty.
InputBatches ==
    UNION {SplitIntoBatches(segments) :
            segments \in SortedSegments(<<0, -1>>, MaxSegments)}

(***************************************************************************)
(* modelardb_compression::grid(): the data points of one segment.  One     *)
(* data point per timestamp of [start_time, end_time], so at least one,    *)
(* with the segment's univariate_id; the values of the model are 0, 1, ... *)
(***************************************************************************)
grid(segment) ==
    [i \in 1..(segment.end_time - segment.start_time + 1) |->
        <<segment.univariate_id, segment.start_time + i - 1, i - 1>>]

\* The for loop over the rows of batch: grid() appends to the builders.
RECURSIVE grid_rows(_)
grid_rows(batch) ==
    IF batch = <<>> THEN <<>> ELSE grid(Head(batch)) \o grid_rows(Tail(batch))

\* predicate.evaluate() on one data point.
evaluate(predicate, data_point) ==
    CASE predicate = "value" -> data_point[3] >= 1
      [] predicate = "timestamp" -> data_point[2] % 2 = 0
      [] OTHER -> TRUE

\* filter_record_batch(): the rows the boolean array selects, in order.
filter_record_batch(record_batch, predicate) ==
    SelectSeq(record_batch, LAMBDA data_point : evaluate(predicate, data_point))

\* RecordBatch::slice(offset, length).
slice(record_batch, offset, length) ==
    SubSeq(record_batch, offset + 1, offset + length)

Min(a, b) == IF a <= b THEN a ELSE b

(***************************************************************************)
(* GridStream.                                                             *)
(***************************************************************************)
\* Mutant of GridStream_new: the limit does not narrow the batch size.
GridStream_new_ignores_limit(maybe_predicate_, limit_, batch_size_) ==
    [maybe_predicate |-> maybe_predicate_,
     batch_size |-> batch_size_,
     current_batch |-> <<>>,
     current_batch_offset |-> 0]

GridStream_new(maybe_predicate_, limit_, batch_size_) ==
    [maybe_predicate |-> maybe_predicate_,
     batch_size |-> IF limit_ # None THEN Min(limit_[1], batch_size_) ELSE batch_size_,
     current_batch |-> <<>>,
     current_batch_offset |-> 0]

\* current_batch.num_rows() - current_batch_offset
remaining_data_points(self) ==
    Len(self.current_batch) - self.current_batch_offset

\* Mutant of grid_and_append_to_leftovers_in_current_batch: the leftovers are
\* appended after the reconstructed data points.
grid_and_append_leftovers_last(self, batch) ==
    LET leftovers == SubSeq(self.current_batch, self.current_batch_offset + 1,
                            Len(self.current_batch))
        current_batch == grid_rows(batch) \o leftovers
    IN  [self EXCEPT
            !.current_batch =
                IF self.maybe_predicate # None
                THEN filter_record_batch(current_batch, self.maybe_predicate[1])
                ELSE current_batch,
            !.current_batch_offset = 0]

\* Mutant of grid_and_append_to_leftovers_in_current_batch: the leftovers are
\* not copied over.
grid_and_drop_leftovers(self, batch) ==
    LET current_batch == grid_rows(batch)
    IN  [self EXCEPT
            !.current_batch =
                IF self.maybe_predicate # None
                THEN filter_record_batch(current_batch, self.maybe_predicate[1])
                ELSE current_batch,
            !.current_batch_offset = 0]

\* Mutant of grid_and_append_to_leftovers_in_current_batch: the filtered
\* batch is not kept.
grid_and_skip_predicate(self, batch) ==
    LET leftovers == SubSeq(self.current_batch, self.current_batch_offset + 1,
                            Len(self.current_batch))
        current_batch == leftovers \o grid_rows(batch)
    IN  [self EXCEPT !.current_batch = current_batch, !.current_batch_offset = 0]

\* Mutant of grid_and_append_to_leftovers_in_current_batch: the offset into
\* the new batch is not set to zero.
grid_and_keep_offset(self, batch) ==
    LET leftovers == SubSeq(self.current_batch, self.current_batch_offset + 1,
                            Len(self.current_batch))
        current_batch == leftovers \o grid_rows(batch)
    IN  [self EXCEPT
            !.current_batch =
                IF self.maybe_predicate # None
                THEN filter_record_batch(current_batch, self.maybe_predicate[1])
                ELSE current_batch]

\* Mutant of grid_and_append_to_leftovers_in_current_batch: the whole
\* current batch is copied, the data points already returned too.
grid_and_keep_returned(self, batch) ==
    LET current_batch == self.current_batch \o grid_rows(batch)
    IN  [self EXCEPT
            !.current_batch =
                IF self.maybe_predicate # None
                THEN filter_record_batch(current_batch, self.maybe_predicate[1])
                ELSE current_batch,
            !.current_batch_offset = 0]

grid_and_append_to_leftovers_in_current_batch(self, batch) ==
    LET leftovers == SubSeq(self.current_batch, self.current_batch_offset + 1,
                            Len(self.current_batch))
        current_batch == leftovers \o grid_rows(batch)
    IN  [self EXCEPT
            !.current_batch =
                IF self.maybe_predicate # None
                THEN filter_record_batch(current_batch, self.maybe_predicate[1])
                ELSE current_batch,
            !.current_batch_offset = 0]

\* The results of the input stream.
Pending == [kind |-> "Pending", batch |-> <<>>]
ReadyNone == [kind |-> "None", batch |-> <<>>]
ReadyErr == [kind |-> "Err", batch |-> <<>>]
ReadyOk(record_batch) == [kind |-> "Ok", batch |-> record_batch]

\* The end of poll_next(): return the next batch_size leftovers.
\* Mutant of deliver: the offset advances by batch_size, not by the rows of
\* the slice.
deliver_advances_by_batch_size(self, polled) ==
    LET length == Min(self.batch_size, remaining_data_points(self))
        batch == slice(self.current_batch, self.current_batch_offset, length)
    IN  [self |-> [self EXCEPT !.current_batch_offset = @ + self.batch_size],
         item |-> ReadyOk(batch),
         polled |-> polled]

deliver(self, polled) ==
    LET length == Min(self.batch_size, remaining_data_points(self))
        batch == slice(self.current_batch, self.current_batch_offset, length)
    IN  [self |-> [self EXCEPT !.current_batch_offset = @ + Len(batch)],
         item |-> ReadyOk(batch),
         polled |-> polled]

\* Mutant of poll_next: None of the input ends the stream although there are
\* leftovers.
poll_next_ends_with_leftovers(self, results) ==
    IF remaining_data_points(self) < self.batch_size
    THEN LET result == Head(results)
         IN  IF result.kind = "Ok"
             THEN deliver(grid_and_append_to_leftovers_in_current_batch(self, result.batch), 1)
             ELSE [self |-> self, item |-> result, polled |-> 1]
    ELSE deliver(self, 0)

\* Mutant of poll_next: the input is polled a second time when the first
\* batch did not fill the current batch.
poll_next_tops_up(self, results) ==
    IF remaining_data_points(self) < self.batch_size
    THEN LET result == Head(results)
         IN  IF result.kind = "Ok"
             THEN LET once == grid_and_append_to_leftovers_in_current_batch(self, result.batch)
                  IN  IF remaining_data_points(once) < self.batch_size
                         /\ Len(results) >= 2 /\ results[2].kind = "Ok"
                      THEN deliver(grid_and_append_to_leftovers_in_current_batch(
                                       once, results[2].batch), 2)
                      ELSE deliver(once, 1)
             ELSE IF result.kind = "None"
                     /\ self.current_batch_offset < Len(self.current_batch)
             THEN deliver(self, 1)
             ELSE [self |-> self, item |-> result, polled |-> 1]
    ELSE deliver(self, 0)

\* poll_next(): results are what input.poll_next_unpin() returns to the
\* successive polls made by this call; polled is how many of them it made.
\* Mutant of poll_next: the input is also polled with a full batch left.
poll_next_polls_at_batch_size(self, results) ==
    IF remaining_data_points(self) <= self.batch_size
    THEN LET result == Head(results)
         IN  IF result.kind = "Ok"
             THEN deliver(grid_and_append_to_leftovers_in_current_batch(self, result.batch), 1)
             ELSE IF result.kind = "None"
                     /\ self.current_batch_offset < Len(self.current_batch)
             THEN deliver(self, 1)
             ELSE [self |-> self, item |-> result, polled |-> 1]
    ELSE deliver(self, 0)

\* Mutant of poll_next: what the input returns instead of a batch is
\* propagated and the leftovers are skipped.
poll_next_skips_leftovers(self, results) ==
    IF remaining_data_points(self) < self.batch_size
    THEN LET result == Head(results)
         IN  IF result.kind = "Ok"
             THEN deliver(grid_and_append_to_leftovers_in_current_batch(self, result.batch), 1)
             ELSE IF result.kind = "None"
                     /\ self.current_batch_offset < Len(self.current_batch)
             THEN deliver(self, 1)
             ELSE [self |-> [self EXCEPT !.current_batch_offset = Len(self.current_batch)],
                   item |-> result, polled |-> 1]
    ELSE deliver(self, 0)

\* Mutant of poll_next: a batch of the input that leaves no data points ends
\* the stream.
poll_next_ends_on_empty_batch(self, results) ==
    IF remaining_data_points(self) < self.batch_size
    THEN LET result == Head(results)
             refilled == grid_and_append_to_leftovers_in_current_batch(self, result.batch)
         IN  IF result.kind = "Ok"
             THEN IF refilled.current_batch = <<>>
                  THEN [self |-> refilled, item |-> ReadyNone, polled |-> 1]
                  ELSE deliver(refilled, 1)
             ELSE IF result.kind = "None"
                     /\ self.current_batch_offset < Len(self.current_batch)
             THEN deliver(self, 1)
             ELSE [self |-> self, item |-> result, polled |-> 1]
    ELSE deliver(self, 0)

poll_next(self, results) ==
    IF remaining_data_points(self) < self.batch_size
    THEN LET result == Head(results)
         IN  IF result.kind = "Ok"
             THEN deliver(grid_and_append_to_leftovers_in_current_batch(self, result.batch), 1)
             ELSE IF result.kind = "None"
                     /\ self.current_batch_offset < Len(self.current_batch)
             THEN deliver(self, 1)
             ELSE [self |-> self, item |-> result, polled |-> 1]
    ELSE deliver(self, 0)

(***************************************************************************)
(* GridExec, the execution plan.                                           *)
(***************************************************************************)
\* The execution plans a GridExec may read from, and how many children
\* with_new_children() is given at most.
ExecutionPlans == {"a", "b"}
MaxChildren == 2

GridExec_new(maybe_predicate_, limit_, input_) ==
    [maybe_predicate |-> maybe_predicate_, limit |-> limit_, input |-> input_]

\* Result<Arc<dyn ExecutionPlan>>: Ok(plan) or Err(DataFusionError::Plan).
PlanOk(plan_) == [kind |-> "Ok", plan |-> <<plan_>>]
PlanErr == [kind |-> "Plan", plan |-> <<>>]

\* Mutant of with_new_children: the first child is taken of one or more.
with_new_children_takes_first(self, children_) ==
    IF Len(children_) >= 1
    THEN PlanOk(GridExec_new(self.maybe_predicate, self.limit, children_[1]))
    ELSE PlanErr

with_new_children(self, children_) ==
    IF Len(children_) = 1
    THEN PlanOk(GridExec_new(self.maybe_predicate, self.limit, children_[1]))
    ELSE PlanErr

(***************************************************************************)
(* crates/modelardb_server/src/storage/compressed_data_buffer.rs.          *)
(*                                                                         *)
(* CompressedDataBuffer keeps the batches of compressed segments appended  *)
(* to it and saves them as one Apache Parquet file.  A batch of compressed *)
(* segments is a sequence of rows <<univariate_id, start_time>>, sorted by *)
(* start_time; a file is a record of its name, its rows and its sorting    *)
(* columns (batches: which batches of the buffer its rows came from).      *)
(***************************************************************************)
\* The start times of compressed segments are 0..MaxStartTime.
MaxStartTime == 1
\* At most MaxAppends batches are appended to the buffer.
MaxAppends == 2
\* Uuid::new_v4() draws from 1..MaxFiles: at most MaxFiles files are written.
MaxFiles == 2

StartTimes == 0..MaxStartTime
Uuids == 1..MaxFiles

\* The elements of a set of start times in increasing order.
RECURSIVE Ascending(_)
Ascending(times) ==
    IF times = {} THEN <<>>
    ELSE LET first == CHOOSE t \in times : \A u \in times : t <= u
         IN  <<first>> \o Ascending(times \ {first})

\* The batches append_compressed_segments() is given: the segments of one
\* time series, sorted by time.
CompressedSegmentBatches ==
    {[i \in 1..Len(times) |-> <<univariate_id, times[i]>>] :
        univariate_id \in UnivariateIds,
        times \in {Ascending(set) : set \in (SUBSET StartTimes) \ {{}}}}

\* The columns of a batch that the model keeps: univariate_id and start_time.
columns(batch) ==
    <<[i \in 1..Len(batch) |-> batch[i][1]], [i \in 1..Len(batch) |-> batch[i][2]]>>

\* Array::get_array_memory_size(): the size of the types and of the values.
get_array_memory_size(column) == 1 + Len(column)

RECURSIVE total_size(_)
total_size(columns_) ==
    IF columns_ = <<>> THEN 0
    ELSE get_array_memory_size(Head(columns_)) + total_size(Tail(columns_))

size_of_compressed_segments(compressed_segments) ==
    total_size(columns(compressed_segments))

CompressedDataBuffer_new == [compressed_segments |-> <<>>, size_in_bytes |-> 0]

\* Mutant of append_compressed_segments: size_in_bytes is set, not added to.
append_and_set_size(self, compressed_segments) ==
    LET segment_size == size_of_compressed_segments(compressed_segments)
    IN  [self |-> [self EXCEPT !.compressed_segments = Append(@, compressed_segments),
                               !.size_in_bytes = segment_size],
         returned |-> segment_size]

append_compressed_segments(self, compressed_segments) ==
    LET segment_size == size_of_compressed_segments(compressed_segments)
    IN  [self |-> [self EXCEPT !.compressed_segments = Append(@, compressed_segments),
                               !.size_in_bytes = @ + segment_size],
         returned |-> segment_size]

\* compute::concat_batches(): the rows of the batches, one batch after the
\* other; a batch of no rows for no batches.
RECURSIVE concat_batches(_)
concat_batches(batches) ==
    IF batches = <<>> THEN <<>> ELSE Head(batches) \o concat_batches(Tail(batches))

\* SortingColumn::new(column_idx, descending, nulls_first).
SortingColumn_new(column_idx_, descending_, nulls_first_) ==
    [column_idx |-> column_idx_, descending |-> descending_, nulls_first |-> nulls_first_]

\* StorageEngine::write_batch_to_apache_parquet_file(): the file of that name
\* is created, or replaced, with the rows of batch.
write_batch_to_apache_parquet_file(files_, file) ==
    {f \in files_ : f.uuid # file.uuid} \cup {file}

\* Result<CompressedFile, IOError>, or the panic of the call.
SaveOk(uuid) == [kind |-> "Ok", location |-> uuid]
SaveErr == [kind |-> "Err", location |-> 0]
SavePanic == [kind |-> "Panic", location |-> 0]
NotSaved == [kind |-> "NotSaved", location |-> 0]

\* CompressedFile::from_compressed_data(): the descriptor of the file with
\* the range of its batch; a batch of no rows has no range, and the call then
\* returns or panics (fault).
from_compressed_data(uuid, batch, fault) ==
    IF batch = <<>> /\ fault = "from_compressed_data" THEN SavePanic ELSE SaveOk(uuid)

\* Mutant of save_to_apache_parquet: the batches are taken out of the buffer
\* to be combined.
save_and_take_segments(self, build_, files_, uuid, fault) ==
    LET taken == [self EXCEPT !.compressed_segments = <<>>, !.size_in_bytes = 0]
        batch == concat_batches(self.compressed_segments)
        file == [uuid |-> uuid, rows |-> batch,
                 sorting_columns |-> <<SortingColumn_new(0, FALSE, FALSE),
                                       SortingColumn_new(2, FALSE, FALSE)>>,
                 batches |-> 1..Len(self.compressed_segments)]
        written == write_batch_to_apache_parquet_file(files_, file)
    IN  IF build_ = "debug" /\ self.compressed_segments = <<>>
        THEN [self |-> self, files |-> files_, result |-> SavePanic]
        ELSE IF fault \in {"create_dir_all", "write"}
        THEN [self |-> taken, files |-> files_, result |-> SaveErr]
        ELSE IF fault = "metadata"
        THEN [self |-> taken, files |-> written, result |-> SaveErr]
        ELSE [self |-> taken, files |-> written,
              result |-> from_compressed_data(uuid, batch, fault)]

\* Mutant of save_to_apache_parquet: the file name is not unique.
save_to_one_file_name(self, build_, files_, uuid, fault) ==
    LET batch == concat_batches(self.compressed_segments)
        file == [uuid |-> 1, rows |-> batch,
                 sorting_columns |-> <<SortingColumn_new(0, FALSE, FALSE),
                                       SortingColumn_new(2, FALSE, FALSE)>>,
                 batches |-> 1..Len(self.compressed_segments)]
        written == write_batch_to_apache_parquet_file(files_, file)
    IN  IF build_ = "debug" /\ self.compressed_segments = <<>>
        THEN [self |-> self, files |-> files_, result |-> SavePanic]
        ELSE IF fault \in {"create_dir_all", "write"}
        THEN [self |-> self, files |-> files_, result |-> SaveErr]
        ELSE IF fault = "metadata"
        THEN [self |-> self, files |-> written, result |-> SaveErr]
        ELSE [self |-> self, files |-> written,
              result |-> from_compressed_data(1, batch, fault)]

\* Mutant of save_to_apache_parquet: no debug_assert!().
save_without_debug_assert(self, build_, files_, uuid, fault) ==
    LET batch == concat_batches(self.compressed_segments)
        file == [uuid |-> uuid, rows |-> batch,
                 sorting_columns |-> <<SortingColumn_new(0, FALSE, FALSE),
                                       SortingColumn_new(2, FALSE, FALSE)>>,
                 batches |-> 1..Len(self.compressed_segments)]
        written == write_batch_to_apache_parquet_file(files_, file)
    IN  IF fault \in {"create_dir_all", "write"}
        THEN [self |-> self, files |-> files_, result |-> SaveErr]
        ELSE IF fault = "metadata"
        THEN [self |-> self, files |-> written, result |-> SaveErr]
        ELSE [self |-> self, files |-> written,
              result |-> from_compressed_data(uuid, batch, fault)]

\* save_to_apache_parquet(): build_ is "debug" with debug_assertions and
\* "release" without, uuid is what Uuid::new_v4() returns, and fault is the
\* step that fails: "create_dir_all", "write" (no file is left), "metadata"
\* (file_path.metadata() or modified(), the file is written),
\* "from_compressed_data", or "none".
save_to_apache_parquet(self, build_, files_, uuid, fault) ==
    LET batch == concat_batches(self.compressed_segments)
        file == [uuid |-> uuid, rows |-> batch,
                 sorting_columns |-> <<SortingColumn_new(0, FALSE, FALSE),
                                       SortingColumn_new(2, FALSE, FALSE)>>,
                 batches |-> 1..Len(self.compressed_segments)]
        written == write_batch_to_apache_parquet_file(files_, file)
    IN  IF build_ = "debug" /\ self.compressed_segments = <<>>
        THEN [self |-> self, files |-> files_, result |-> SavePanic]
        ELSE IF fault \in {"create_dir_all", "write"}
        THEN [self |-> self, files |-> files_, result |-> SaveErr]
        ELSE IF fault = "metadata"
        THEN [self |-> self, files |-> written, result |-> SaveErr]
        ELSE [self |-> self, files |-> written,
              result |-> from_compressed_data(uuid, batch, fault)]

(***************************************************************************)
(* The state: the plan's parameters, the stream, its input stream, and     *)
(* what the consumer of the stream has seen.                               *)
(***************************************************************************)
VARIABLES
    limit,          \* GridExec.limit
    session_batch_size, \* task_context.session_config().batch_size()
    stream,         \* the GridStream
    input,          \* the batches the input stream has yet to yield
    input_done,     \* the input stream has returned None or an error
    consumed,       \* the batches the input stream has yielded
    returned,       \* the last item poll_next() returned
    input_polls,    \* how many times the last poll_next() polled the input
    emitted,        \* the data points of all the batches returned so far
    errors          \* how many errors poll_next() has returned

\* The state of a CompressedDataBuffer and of the folder it is saved to.
VARIABLES
    build,          \* "debug" (with debug_assertions) or "release"
    buffer,         \* the CompressedDataBuffer
    files,          \* the files of <local_data_folder>/<folder_path>
    last_call,      \* the last method called on the buffer
    append_returned, \* what the last append_compressed_segments() returned
    returned_total, \* the sum of what the appends returned
    save_result,    \* what the last save_to_apache_parquet() returned
    compressed_files \* the files of the CompressedFiles returned so far

\* The state of a GridExec and of the last call of with_new_children().
VARIABLES
    plan,           \* the GridExec
    children,       \* the children of the last call
    new_plan        \* what the last call returned

grid_vars == <<limit, session_batch_size, stream, input, input_done, consumed,
               returned, input_polls, emitted, errors>>

buffer_vars == <<build, buffer, files, last_call, append_returned, returned_total,
                 save_result, compressed_files>>

plan_vars == <<plan, children, new_plan>>

vars == <<grid_vars, buffer_vars, plan_vars>>

NotPolled == [kind |-> "NotPolled", batch |-> <<>>]

\* No stream, buffer or plan is used.
NoStream ==
    /\ limit = None
    /\ session_batch_size = 1
    /\ stream = GridStream_new(None, None, 1)
    /\ input = <<>>
    /\ input_done = FALSE
    /\ consumed = <<>>
    /\ returned = NotPolled
    /\ input_polls = 0
    /\ emitted = <<>>
    /\ errors = 0

NoBuffer ==
    /\ build = "debug"
    /\ buffer = CompressedDataBuffer_new
    /\ files = {}
    /\ last_call = "new"
    /\ append_returned = 0
    /\ returned_total = 0
    /\ save_result = NotSaved
    /\ compressed_files = {}

NotCalled == [kind |-> "NotCalled", plan |-> <<>>]

NoPlan ==
    /\ plan = GridExec_new(None, None, "a")
    /\ children = <<>>
    /\ new_plan = NotCalled

Init ==
    /\ limit \in Limits
    /\ session_batch_size \in BatchSizes
    /\ \E maybe_predicate \in Predicates :
          stream = GridStream_new(maybe_predicate, limit, session_batch_size)
    /\ input \in InputBatches
    /\ input_done = FALSE
    /\ consumed = <<>>
    /\ returned = NotPolled
    /\ input_polls = 0
    /\ emitted = <<>>
    /\ errors = 0
    /\ NoBuffer
    /\ NoPlan

\* What the input stream returns to the successive polls of one poll_next().
InputReady ==
    IF input_done THEN <<ReadyNone>>
    ELSE [i \in 1..Len(input) |-> ReadyOk(input[i])] \o <<ReadyNone>>

\* One call of poll_next() by the consumer, the input stream returning results.
\* consumed keeps the batches that hold segments.
Poll(results) ==
    LET out == poll_next(stream, results)
        polled == SubSeq(results, 1, out.polled)
        taken == SelectSeq(polled, LAMBDA r : r.kind = "Ok" /\ r.batch # <<>>)
        ended == \E i \in 1..out.polled : results[i].kind \in {"None", "Err"}
    IN  /\ stream' = out.self
        /\ returned' = out.item
        /\ input_polls' = out.polled
        /\ input' = IF ended THEN <<>> ELSE SubSeq(input, Len(taken) + 1, Len(input))
        /\ input_done' = (input_done \/ ended)
        /\ consumed' = consumed \o [i \in 1..Len(taken) |-> taken[i].batch]
        /\ emitted' = IF out.item.kind = "Ok" THEN emitted \o out.item.batch ELSE emitted
        /\ errors' = IF out.item.kind = "Err" THEN errors + 1 ELSE errors
        /\ UNCHANGED <<limit, session_batch_size, buffer_vars, plan_vars>>

\* The input stream has its next result ready: a batch, or None at its end.
PollInputReady == Poll(InputReady)

\* The input stream yields a batch of no segment.
PollInputEmpty == ~input_done /\ Poll(<<ReadyOk(<<>>)>> \o InputReady)

\* The input stream is not ready.
PollInputPending == ~input_done /\ Poll(<<Pending>>)

\* The input stream fails, and has ended.
PollInputErr == ~input_done /\ Poll(<<ReadyErr, ReadyNone>>)

Next == PollInputReady \/ PollInputEmpty \/ PollInputPending \/ PollInputErr

Spec == Init /\ [][Next]_vars

\* The consumer keeps polling and the input stream does not stay Pending (or
\* yield batches of no segment) forever: its next result eventually arrives.
LiveSpec == Spec /\ WF_vars(PollInputReady)

(***************************************************************************)
(* The calls on a CompressedDataBuffer.                                    *)
(***************************************************************************)
BufferInit ==
    /\ build \in {"debug", "release"}
    /\ buffer = CompressedDataBuffer_new
    /\ files = {}
    /\ last_call = "new"
    /\ append_returned = 0
    /\ returned_total = 0
    /\ save_result = NotSaved
    /\ compressed_files = {}
    /\ NoStream
    /\ NoPlan

AppendCompressedSegments ==
    /\ Len(buffer.compressed_segments) < MaxAppends
    /\ \E compressed_segments \in CompressedSegmentBatches :
          LET out == append_compressed_segments(buffer, compressed_segments)
          IN  /\ buffer' = out.self
              /\ append_returned' = out.returned
              /\ returned_total' = returned_total + out.returned
    /\ last_call' = "append"
    /\ UNCHANGED <<build, files, save_result, compressed_files, grid_vars, plan_vars>>

\* One call of save_to_apache_parquet(), the step fault failing.
Save(fault) ==
    \E uuid \in Uuids \ {f.uuid : f \in files} :
        LET out == save_to_apache_parquet(buffer, build, files, uuid, fault)
        IN  /\ buffer' = out.self
            /\ files' = out.files
            /\ save_result' = out.result
            /\ compressed_files' =
                  IF out.result.kind = "Ok"
                  THEN compressed_files \cup {out.result.location}
                  ELSE compressed_files
            /\ last_call' = "save"
            /\ UNCHANGED <<build, append_returned, returned_total, grid_vars, plan_vars>>

SaveToApacheParquet == Save("none")

SaveCreateDirAllFails == Save("create_dir_all")

SaveWriteFails == Save("write")

SaveMetadataFails == Save("metadata")

\* CompressedFile::from_compressed_data() panics for a batch of no rows.
SaveFromCompressedDataPanics ==
    buffer.compressed_segments = <<>> /\ Save("from_compressed_data")

BufferNext ==
    \/ AppendCompressedSegments
    \/ SaveToApacheParquet
    \/ SaveCreateDirAllFails
    \/ SaveWriteFails
    \/ SaveMetadataFails
    \/ SaveFromCompressedDataPanics

BufferSpec == BufferInit /\ [][BufferNext]_vars

(***************************************************************************)
(* The calls of with_new_children() on a GridExec.                         *)
(***************************************************************************)
RECURSIVE SeqsUpTo(_, _)
SeqsUpTo(set, n) ==
    IF n = 0 THEN {<<>>}
    ELSE LET shorter == SeqsUpTo(set, n - 1)
         IN  shorter \cup {Append(seq, x) : seq \in shorter, x \in set}

PlanInit ==
    /\ \E maybe_predicate \in Predicates, limit_ \in Limits, input_ \in ExecutionPlans :
          plan = GridExec_new(maybe_predicate, limit_, input_)
    /\ children = <<>>
    /\ new_plan = NotCalled
    /\ NoStream
    /\ NoBuffer

WithNewChildren ==
    /\ \E children_ \in SeqsUpTo(ExecutionPlans, MaxChildren) :
          /\ children' = children_
          /\ new_plan' = with_new_children(plan, children_)
    /\ UNCHANGED <<plan, grid_vars, buffer_vars>>

PlanNext == WithNewChildren

PlanSpec == PlanInit /\ [][PlanNext]_vars

(***************************************************************************)
(* What the properties are stated with.                                    *)
(***************************************************************************)
RECURSIVE Flatten(_)
Flatten(batches) ==
    IF batches = <<>> THEN <<>> ELSE Head(batches) \o Flatten(Tail(batches))

\* (univariate_id, timestamp) of a is at most that of b: QUERY_ORDER_DATA_POINT.
PointOrder(a, b) == a[1] < b[1] \/ (a[1] = b[1] /\ a[2] <= b[2])

Range(seq) == {seq[i] : i \in 1..Len(seq)}

\* The batch size the stream is to use for its limit and session batch size.
EffectiveBatchSize ==
    IF limit = None THEN session_batch_size ELSE Min(limit[1], session_batch_size)

\* The stream has returned None after its input stream ended without an error.
EndOfStream == returned.kind = "None" /\ errors = 0

\* The data points a consumer gets from a new stream that it polls until the
\* stream returns None, the input stream yielding batches and then None.
RECURSIVE Drain(_, _, _)
Drain(self, batches, data_points) ==
    LET results == [i \in 1..Len(batches) |-> ReadyOk(batches[i])] \o <<ReadyNone>>
        out == poll_next(self, results)
        taken == Cardinality({i \in 1..out.polled : results[i].kind = "Ok"})
    IN  IF out.item.kind # "Ok" THEN data_points
        ELSE Drain(out.self, SubSeq(batches, taken + 1, Len(batches)),
                   data_points \o out.item.batch)

(***************************************************************************)
(* C1. Sortedness: the data points of all the batches returned so far are  *)
(* non-decreasing in (univariate_id, timestamp), the input being sorted by *)
(* (univariate_id, start_time) with disjoint segments per time series.     *)
(***************************************************************************)
C1_Sortedness ==
    \A i \in 1..(Len(emitted) - 1) : PointOrder(emitted[i], emitted[i + 1])

\* A returned batch starts with a leftover of the first input batch and goes
\* on with a data point of the second one.
C1_Witness ==
    /\ Len(consumed) = 2
    /\ returned.kind = "Ok"
    /\ Len(returned.batch) >= 2
    /\ returned.batch[1][1] = consumed[1][1].univariate_id
    /\ returned.batch[2][1] = consumed[2][1].univariate_id
    /\ consumed[1][1].univariate_id # consumed[2][1].univariate_id

(***************************************************************************)
(* C2. Size bound: a returned batch has at most min(limit, batch size)     *)
(* rows when a limit is set and at most batch size rows otherwise.         *)
(***************************************************************************)
C2_SizeBound ==
    returned.kind = "Ok" =>
        Len(returned.batch) <= EffectiveBatchSize

\* A batch cut to a limit below the session's batch size, with leftovers.
C2_Witness ==
    /\ limit # None
    /\ limit[1] >= 1
    /\ limit[1] < session_batch_size
    /\ returned.kind = "Ok"
    /\ Len(returned.batch) = limit[1]
    /\ remaining_data_points(stream) >= session_batch_size

(***************************************************************************)
(* C3. Row conservation: without predicate and limit, a stream polled to   *)
(* its end has returned as many rows as grid() reconstructs from all the   *)
(* segments of the input, none of them twice.                              *)
(***************************************************************************)
C3_RowConservation ==
    (EndOfStream /\ limit = None /\ stream.maybe_predicate = None) =>
        /\ Len(emitted) = Len(grid_rows(Flatten(consumed)))
        /\ Cardinality(Range(emitted)) = Len(emitted)
        /\ Range(emitted) = Range(grid_rows(Flatten(consumed)))

\* Two input batches, the second one read while the first one had leftovers.
C3_Witness ==
    /\ EndOfStream /\ limit = None /\ stream.maybe_predicate = None
    /\ Len(consumed) = 2
    /\ Len(grid_rows(consumed[1])) % session_batch_size # 0
    /\ Len(emitted) >= 4

(***************************************************************************)
(* C4. Predicate soundness: with a predicate, a stream polled to its end   *)
(* has returned exactly the reconstructed data points that satisfy the     *)
(* predicate, in their order, each once.                                   *)
(***************************************************************************)
C4_PredicateSoundness ==
    (EndOfStream /\ stream.maybe_predicate # None) =>
        emitted = SelectSeq(grid_rows(Flatten(consumed)),
                            LAMBDA data_point : evaluate(stream.maybe_predicate[1], data_point))

\* The predicate rejected some data points and kept others, over two input
\* batches: the kept leftovers of the first were evaluated again.
C4_Witness ==
    /\ EndOfStream /\ stream.maybe_predicate # None
    /\ Len(consumed) = 2
    /\ emitted # <<>>
    /\ Len(emitted) < Len(grid_rows(Flatten(consumed)))
    /\ Len(filter_record_batch(grid_rows(consumed[1]), stream.maybe_predicate[1]))
         % stream.batch_size # 0

(***************************************************************************)
(* C5. Leftover correctness: a stream polled to its end has returned the   *)
(* data points a stream with the same parameters returns when its input    *)
(* yields all the segments as one batch.                                   *)
(***************************************************************************)
C5_LeftoverCorrectness ==
    EndOfStream =>
        emitted = Drain(GridStream_new(stream.maybe_predicate, limit, session_batch_size),
                        <<Flatten(consumed)>>, <<>>)

\* The segments came in two batches, the second read with leftovers.
C5_Witness ==
    /\ EndOfStream
    /\ Len(consumed) = 2
    /\ Len(emitted) >= 3
    /\ Len(filter_record_batch(grid_rows(consumed[1]),
                               IF stream.maybe_predicate = None THEN "none"
                               ELSE stream.maybe_predicate[1]))
         % stream.batch_size # 0

(***************************************************************************)
(* C6. Termination: a consumer that keeps polling eventually gets None of  *)
(* the stream, for every batch size and limit, the limit 0 included.       *)
(***************************************************************************)
C6_Termination == <>(returned.kind = "None")

\* C6 for the streams whose batch size is at least 1 (it holds).
C6_TerminationPositiveBatchSize ==
    (stream.batch_size >= 1) => <>(returned.kind = "None")

(***************************************************************************)
(* C7. Drain before end: the stream returns None only when its input has   *)
(* ended and no leftover remains, and a poll that finds the input ended    *)
(* while there are leftovers returns leftovers.                            *)
(***************************************************************************)
C7_DrainBeforeEnd ==
    /\ [](returned.kind = "None" =>
            input_done /\ stream.current_batch_offset = Len(stream.current_batch))
    /\ [][(/\ remaining_data_points(stream) > 0
           /\ input_polls' = 1
           /\ input_done' /\ errors' = errors)
          => (returned'.kind = "Ok" /\ returned'.batch # <<>>)]_vars

\* The last poll polled the ended input and returned leftovers.
C7_Witness ==
    /\ input_done /\ errors = 0
    /\ input_polls = 1
    /\ returned.kind = "Ok" /\ returned.batch # <<>>

(***************************************************************************)
(* C8. An error of the input ends the stream: once poll_next has returned  *)
(* an error, it has returned one error and returns no batch afterwards.    *)
(***************************************************************************)
C8_ErrorEndsStream ==
    [][errors >= 1 => (errors' = 1 /\ returned'.kind # "Ok")]_vars

(***************************************************************************)
(* C9. Backpressure: a call of poll_next polls the input at most once and  *)
(* takes at most one batch of it, also when the batch it returns is short. *)
(***************************************************************************)
C9_Backpressure ==
    [][input_polls' <= 1 /\ Len(consumed') <= Len(consumed) + 1]_vars

\* A refill under a predicate left a short batch and the next batch of the
\* input was not taken.
C9_Witness ==
    /\ stream.maybe_predicate # None
    /\ input_polls = 1
    /\ consumed # <<>>
    /\ input # <<>>
    /\ returned.kind = "Ok"
    /\ Len(returned.batch) < stream.batch_size

(***************************************************************************)
(* C10. A limit of at least 1 only narrows the batch size: a stream polled *)
(* to its end has returned the data points a stream without limit returns  *)
(* for the same input, predicate and session batch size; their number is   *)
(* not capped at the limit.                                                *)
(***************************************************************************)
C10_LimitNarrowsBatchSize ==
    (EndOfStream /\ limit # None /\ limit[1] >= 1) =>
        emitted = Drain(GridStream_new(stream.maybe_predicate, None, session_batch_size),
                        consumed, <<>>)

\* More data points than the limit were returned, in batches of the limit.
C10_Witness ==
    /\ EndOfStream /\ limit # None
    /\ limit[1] >= 1
    /\ limit[1] < session_batch_size
    /\ Len(emitted) > limit[1]
    /\ Len(consumed) = 2

(***************************************************************************)
(* Claims about CompressedDataBuffer, checked under BufferSpec.            *)
(***************************************************************************)
\* The step is a call of save_to_apache_parquet() that returned kind.
SaveReturns(kind) == last_call' = "save" /\ save_result'.kind = kind

\* The files whose CompressedFile a successful save has returned.
FlushedFiles == {f \in files : f.uuid \in compressed_files}

\* C11: flush consumes the buffer: a batch appended before a successful
\* save_to_apache_parquet is written by that flush and by no later flush of
\* the same buffer, so each appended batch ends up in at most one of the
\* files of the successful flushes.  The code keeps the batches in the
\* buffer, and the next flush writes them again.
C11_FlushConsumesBuffer ==
    \A i \in 1..Len(buffer.compressed_segments) :
        Cardinality({f \in FlushedFiles : i \in f.batches}) <= 1

\* C12: sorted file: the rows of every file written by
\* save_to_apache_parquet are sorted non-decreasing by (univariate_id,
\* start_time), for any arrival order of batches that are each sorted by
\* start_time.  The code writes the rows in arrival order.
C12_SortedFile ==
    \A f \in files :
        \A i, j \in 1..Len(f.rows) : i < j => PointOrder(f.rows[i], f.rows[j])

\* C13: flush atomicity: when save_to_apache_parquet returns a descriptor
\* exactly one new file exists, and when it returns an I/O error no new file
\* from the call is left in the folder.  The code leaves the file when
\* file_path.metadata() or modified() fails after the write.
C13_FlushAtomicity ==
    [][/\ SaveReturns("Ok") => Cardinality(files' \ files) = 1
       /\ SaveReturns("Err") => files' = files]_vars

\* C14: flush failure keeps state: when save_to_apache_parquet returns an
\* I/O error, the batches of the buffer and its size_in_bytes are what they
\* were before the call.
C14_FlushFailureKeepsState ==
    [][SaveReturns("Err") =>
          /\ buffer'.compressed_segments = buffer.compressed_segments
          /\ buffer'.size_in_bytes = buffer.size_in_bytes]_vars

\* A save of a buffer of two batches has returned an I/O error.
C14_Witness ==
    /\ last_call = "save"
    /\ save_result.kind = "Err"
    /\ Len(buffer.compressed_segments) = 2
    /\ buffer.size_in_bytes > 0

\* The number of rows of the batches.
RECURSIVE RowCount(_)
RowCount(batches) ==
    IF batches = <<>> THEN 0 ELSE Len(Head(batches)) + RowCount(Tail(batches))

\* C15: flushed content: a successful save_to_apache_parquet creates exactly
\* one new file, whose rows are the rows of the batches of the buffer in
\* append order (n1 + ... + nk rows) and whose sorting columns are column 0
\* then column 2, ascending; the files already in the folder are neither
\* overwritten nor removed.
C15_FlushedContent ==
    [][SaveReturns("Ok") =>
          /\ files \subseteq files'
          /\ \E f \in files' :
                /\ files' \ files = {f}
                /\ f.uuid = save_result'.location
                /\ f.rows = Flatten(buffer.compressed_segments)
                /\ Len(f.rows) = RowCount(buffer.compressed_segments)
                /\ Len(f.sorting_columns) = 2
                /\ f.sorting_columns[1].column_idx = 0
                /\ f.sorting_columns[2].column_idx = 2
                /\ \A k \in 1..2 : ~f.sorting_columns[k].descending]_vars

\* A second file has been written, with the rows of two batches.
C15_Witness ==
    /\ last_call = "save"
    /\ save_result.kind = "Ok"
    /\ Cardinality(files) = 2
    /\ \E f \in files :
          /\ f.uuid = save_result.location
          /\ Len(buffer.compressed_segments) = 2
          /\ Len(f.rows) >= 3

\* C16: size accounting: a new buffer has size_in_bytes = 0; each
\* append_compressed_segments adds one batch, returns the size computed for
\* it and adds that to size_in_bytes; after appends and a flush,
\* size_in_bytes is the sum of what the appends returned.
C16_SizeAccounting ==
    /\ [](/\ buffer.size_in_bytes = returned_total
          /\ last_call = "new" => buffer = [compressed_segments |-> <<>>,
                                            size_in_bytes |-> 0])
    /\ [][last_call' = "append" =>
             /\ Len(buffer'.compressed_segments) = Len(buffer.compressed_segments) + 1
             /\ SubSeq(buffer'.compressed_segments, 1, Len(buffer.compressed_segments))
                   = buffer.compressed_segments
             /\ append_returned' = size_of_compressed_segments(
                   buffer'.compressed_segments[Len(buffer'.compressed_segments)])
             /\ buffer'.size_in_bytes = buffer.size_in_bytes + append_returned']_vars

\* Two batches have been appended and then flushed.
C16_Witness ==
    /\ last_call = "save"
    /\ save_result.kind = "Ok"
    /\ Len(buffer.compressed_segments) = 2
    /\ buffer.size_in_bytes = returned_total
    /\ returned_total > append_returned
    /\ append_returned > 0

\* C17: empty-buffer flush never succeeds: save_to_apache_parquet on a
\* buffer of no batches panics in a debug build and returns an I/O error in a
\* release build, and in neither build returns a descriptor or writes a file.
\* Without debug_assertions the code has no check: it writes a file of no
\* rows.
C17_EmptyFlushNeverSucceeds ==
    [][(last_call' = "save" /\ buffer.compressed_segments = <<>>) =>
          /\ save_result'.kind = (IF build = "debug" THEN "Panic" ELSE "Err")
          /\ files' = files
          /\ compressed_files' = compressed_files]_vars

\* C17, as the code has it: save_to_apache_parquet on a buffer of no
\* batches panics in a debug build, without a file or a descriptor; in a
\* release build nothing checks for the empty buffer: the call returns an
\* I/O error only when a step of the flush fails, and otherwise writes one
\* new file of no rows.
C17_EmptyFlushPanicsInDebugOnly ==
    [][(last_call' = "save" /\ buffer.compressed_segments = <<>>) =>
          /\ build = "debug" =>
                /\ save_result'.kind = "Panic"
                /\ files' = files
                /\ compressed_files' = compressed_files
          /\ (build = "release" /\ save_result'.kind # "Err") =>
                /\ \E f \in files' : files' \ files = {f} /\ f.rows = <<>>
                /\ save_result'.kind = "Ok" =>
                      save_result'.location \in {f.uuid : f \in files' \ files}
          /\ buffer' = buffer]_vars

\* A release build has saved a buffer of no batches: a file of no rows.
C17_Witness ==
    /\ build = "release"
    /\ last_call = "save"
    /\ buffer.compressed_segments = <<>>
    /\ save_result.kind = "Ok"
    /\ \E f \in files : f.uuid = save_result.location /\ f.rows = <<>>

(***************************************************************************)
(* The claim about GridExec, checked under PlanSpec.                       *)
(***************************************************************************)
\* C18: with_new_children returns a plan error whenever the number of
\* children is not exactly one, and with exactly one child returns a new
\* GridExec whose input is that child and whose predicate and limit are
\* those of the original; the original plan is not changed.
C18_WithNewChildren ==
    /\ [](new_plan.kind # "NotCalled" =>
            /\ new_plan.kind = "Plan" <=> Len(children) # 1
            /\ new_plan.kind = "Ok" <=> Len(children) = 1
            /\ Len(children) = 1 =>
                  /\ Len(new_plan.plan) = 1
                  /\ new_plan.plan[1].input = children[1]
                  /\ new_plan.plan[1].maybe_predicate = plan.maybe_predicate
                  /\ new_plan.plan[1].limit = plan.limit)
    /\ [][plan' = plan]_vars

\* A plan with a predicate and a limit has been given one other child.
C18_Witness ==
    /\ new_plan.kind = "Ok"
    /\ new_plan.plan[1].input # plan.input
    /\ plan.maybe_predicate # None
    /\ plan.limit # None

(***************************************************************************)
(* Claims about the polls of GridStream, checked under Spec and LiveSpec.  *)
(***************************************************************************)
\* C19: poll gating: poll_next polls the input if and only if the number
\* of pending rows is smaller than the effective batch size; with at least
\* the effective batch size of rows pending, the poll does not touch the
\* input, returns a batch of exactly that many rows and advances the offset
\* by that amount.
C19_PollGating ==
    [][/\ input_polls' = 1 <=> remaining_data_points(stream) < EffectiveBatchSize
       /\ input_polls' = 0 <=> remaining_data_points(stream) >= EffectiveBatchSize
       /\ remaining_data_points(stream) >= EffectiveBatchSize =>
             /\ input' = input
             /\ input_done' = input_done
             /\ consumed' = consumed
             /\ returned'.kind = "Ok"
             /\ Len(returned'.batch) = EffectiveBatchSize
             /\ stream'.current_batch = stream.current_batch
             /\ stream'.current_batch_offset =
                   stream.current_batch_offset + EffectiveBatchSize]_vars

\* A full batch has been returned without a poll of the input, with rows
\* left over.
C19_Witness ==
    /\ input_polls = 0
    /\ returned.kind = "Ok"
    /\ EffectiveBatchSize >= 1
    /\ Len(returned.batch) = EffectiveBatchSize
    /\ remaining_data_points(stream) >= 1

\* The rows of current_batch that have not been returned.
Leftovers(self) ==
    SubSeq(self.current_batch, self.current_batch_offset + 1, Len(self.current_batch))

\* C20: a poll that returns Pending, an error of the input, or the end of
\* the stream leaves current_batch and current_batch_offset unchanged and
\* delivers nothing; the rows left over when a poll returns Pending are
\* delivered by a later poll: a batch is returned later, and the batch
\* returned next starts with the rows left over.
C20_LeftoversKept ==
    /\ [][/\ returned'.kind \in {"Pending", "Err", "None"} =>
                /\ stream'.current_batch = stream.current_batch
                /\ stream'.current_batch_offset = stream.current_batch_offset
                /\ emitted' = emitted
          /\ (returned'.kind = "Ok" /\ input_polls' = 1) =>
                /\ Len(returned'.batch) >= remaining_data_points(stream)
                /\ SubSeq(returned'.batch, 1, remaining_data_points(stream))
                      = Leftovers(stream)]_vars
    /\ (returned.kind = "Pending" /\ remaining_data_points(stream) > 0)
          ~> (returned.kind = "Ok" /\ returned.batch # <<>>)

\* A poll has returned Pending with rows left over.
C20_Witness ==
    /\ returned.kind = "Pending"
    /\ remaining_data_points(stream) > 0
    /\ emitted # <<>>

\* The step is a poll in which the input returned a batch of segments: one
\* of the input, which is then consumed, or a batch of no segments.
InputYieldsBatch ==
    /\ input_polls' = 1
    /\ \/ Len(consumed') = Len(consumed) + 1
       \/ consumed' = consumed /\ returned'.kind # "Pending" /\ ~input_done'

\* The batch of segments the input returned in that step.
YieldedBatch ==
    IF Len(consumed') = Len(consumed) + 1 THEN consumed'[Len(consumed')] ELSE <<>>

\* The data points left over followed by those of the batch the input
\* returned, without those the predicate rejects.
Refilled ==
    LET current_batch == Leftovers(stream) \o grid_rows(YieldedBatch)
    IN  IF stream.maybe_predicate # None
        THEN SelectSeq(current_batch,
                       LAMBDA data_point : evaluate(stream.maybe_predicate[1], data_point))
        ELSE current_batch

\* C21: refill postcondition: after a refill with a batch B of the input,
\* current_batch is the undelivered rows of the old current_batch followed
\* by the rows reconstructed from the segments of B, filtered by the
\* predicate, and current_batch_offset is 0 (the batch returned by the poll
\* starts at the first row); the rows already delivered are not in the new
\* current_batch.
C21_RefillPostcondition ==
    [][InputYieldsBatch =>
          /\ stream'.current_batch = Refilled
          /\ returned'.kind = "Ok" =>
                /\ returned'.batch = SubSeq(Refilled, 1, Len(returned'.batch))
                /\ stream'.current_batch_offset = Len(returned'.batch)
          /\ \A i \in 1..stream.current_batch_offset :
                stream.current_batch[i] \notin Range(stream'.current_batch)]_vars

\* A refill has dropped the rows already returned and kept a leftover.
C21_Witness ==
    /\ Len(consumed) = 2
    /\ input_polls = 1
    /\ returned.kind = "Ok"
    /\ Len(emitted) > Len(returned.batch)
    /\ returned.batch # <<>>
    /\ \E i \in 1..Len(returned.batch) : returned.batch[i] \in Range(grid_rows(consumed[1]))
    /\ \E i \in 1..Len(returned.batch) : returned.batch[i] \in Range(grid_rows(consumed[2]))

\* C22: cursor invariant: in every reachable state of a GridStream
\* 0 <= current_batch_offset <= current_batch.num_rows, so num_rows - offset
\* does not underflow and the slice of a delivery is inside current_batch.
C22_CursorInvariant ==
    /\ 0 <= stream.current_batch_offset
    /\ stream.current_batch_offset <= Len(stream.current_batch)
    /\ remaining_data_points(stream) >= 0

\* The offset is inside the current batch after a short delivery reached
\* its end.
C22_Witness ==
    /\ returned.kind = "Ok"
    /\ stream.current_batch_offset = Len(stream.current_batch)
    /\ Len(returned.batch) >= 1
    /\ Len(returned.batch) < EffectiveBatchSize

\* C23: short and empty batches: a poll in which the input yields a batch
\* of segments returns a data batch, never Pending or the end of the stream;
\* the batch has fewer rows than the effective batch size exactly when fewer
\* rows are pending after the refill, and no rows when the leftover was empty
\* and the predicate rejected every reconstructed point or the batch had no
\* segments; the stream has not ended with it.
C23_ShortAndEmptyBatches ==
    [][InputYieldsBatch =>
          /\ returned'.kind = "Ok"
          /\ Len(returned'.batch) <= EffectiveBatchSize
          /\ Len(returned'.batch) < EffectiveBatchSize
                <=> Len(Refilled) < EffectiveBatchSize
          /\ Len(Refilled) < EffectiveBatchSize => returned'.batch = Refilled
          /\ (/\ Leftovers(stream) = <<>>
              /\ \A data_point \in Range(grid_rows(YieldedBatch)) :
                    /\ stream.maybe_predicate # None
                    /\ ~evaluate(stream.maybe_predicate[1], data_point))
                => returned'.batch = <<>>
          /\ ~input_done']_vars

\* A batch of segments has been consumed and every data point of it was
\* rejected: a batch of no rows was returned, and the input has not ended.
C23_Witness ==
    /\ Len(consumed) = 1
    /\ input_polls = 1
    /\ returned = [kind |-> "Ok", batch |-> <<>>]
    /\ stream.maybe_predicate # None
    /\ emitted = <<>>
    /\ ~input_done
    /\ input # <<>>

=============================================================================
